---- MODULE Spec2Model ----
(***************************************************************************)
(* Model of pyrobolearn/robots/gripper.py: the Gripper end-effector class, *)
(* its finger grouping (`fingers`), the read accessors num_fingers and     *)
(* get_finger, and the three variants ParallelGripper, AngularGripper and  *)
(* VacuumGripper.                                                          *)
(*                                                                         *)
(* Two instances are driven by the same calls: `self`, an instance of the  *)
(* class `cls` (any of the four), and `base`, an instance of Gripper.      *)
(***************************************************************************)
EXTENDS Integers, Sequences, FiniteSets, TLC

\* ---------------------------------------------------------------- bounds
MaxFingers == 2      \* longest finger collection assigned to `fingers`

\* ------------------------------------------------------- python values
\* An optional value: <<>> is Python's None / a missing attribute, <<v>> is v.
None == <<>>

Some(v) == <<v>>

\* Outcome of a call: a returned value (tagged by the return statement that
\* produced it) or a raised exception.
ReturnNone == [none |-> TRUE]

ReturnFingers(v) == [fingers |-> v]

ReturnFinger(v) == [finger |-> v]

ReturnCount(n) == [count |-> n]

Raise(e) == [raise |-> e]

\* Python truthiness of an optional integer: None and 0 are falsy.
Truthy(x) == x # None /\ x[1] # 0

\* len(list)
PyLen(list) == Len(list)

\* list[i] for a Python list and an integer i: 0-based, negative indices
\* count from the end, anything else raises IndexError.
GetItem(list, i) ==
    IF 0 <= i /\ i < Len(list) THEN [ok |-> TRUE, val |-> list[i + 1]]
    ELSE IF i < 0 /\ -Len(list) <= i
         THEN [ok |-> TRUE, val |-> list[Len(list) + i + 1]]
    ELSE [ok |-> FALSE, val |-> "IndexError"]

\* ------------------------------------------------------------ input sets
SeqUpTo(S, n) == UNION {[1..k -> S] : k \in 0..n}

\* finger groups: ordered link/joint identifiers of one finger (the code never
\* looks inside a group); a finger-less group is allowed
FingerGroups == {<<>>, <<10, 11>>, <<20, 21>>}

FingerLists == SeqUpTo(FingerGroups, MaxFingers)

\* finger_id arguments: None, and integers on both sides of the valid range
FingerIds == {None} \cup {Some(i) : i \in -(MaxFingers + 1)..(MaxFingers + 1)}

Classes == {"Gripper", "ParallelGripper", "AngularGripper", "VacuumGripper"}

Variants == Classes \ {"Gripper"}

Urdfs == {"gripper.urdf", "hand.urdf"}

Scales == {1, 2}

DefaultPosition == <<0, 0, 1>>

DefaultOrientation == <<0, 0, 0, 1>>

\* What the Robot constructor does with a call: returns normally ("ok") or
\* raises one of its own failures.
RobotOutcomes == {"ok", "BadGeometry", "InvalidPose", "SimulatorRejected"}

\* A freshly allocated instance: no attribute set yet.
NewObject == [robot |-> None, fingers |-> None]

\* ------------------------------------------------------------ the classes
\* Robot.__init__: on success the instance holds the entity created from
\* the six arguments; on failure it raises and sets nothing.
Robot__init__(self, simulator, urdf, position, orientation, fixed_base, scale, outcome) ==
    IF outcome = "ok"
    THEN [self |-> [self EXCEPT !.robot =
                      Some(<<simulator, urdf, position, orientation, fixed_base, scale>>)],
          ret |-> ReturnNone]
    ELSE [self |-> self, ret |-> Raise(outcome)]

\* mutant: fingers is initialised before the Robot constructor is called
Gripper__init__FingersFirst(self, simulator, urdf, position, orientation, fixed_base, scale, outcome) ==
    LET s == [self EXCEPT !.fingers = Some(<<>>)]
    IN  Robot__init__(s, simulator, urdf, position, orientation, fixed_base, scale, outcome)

\* mutant: fingers starts with one (empty) finger group
Gripper__init__OneFinger(self, simulator, urdf, position, orientation, fixed_base, scale, outcome) ==
    LET r == Robot__init__(self, simulator, urdf, position, orientation,
                           fixed_base, scale, outcome)
    IN  IF "raise" \in DOMAIN r.ret THEN r
        ELSE [self |-> [r.self EXCEPT !.fingers = Some(<< <<>> >>)], ret |-> ReturnNone]

\* Gripper.__init__
Gripper__init__(self, simulator, urdf, position, orientation, fixed_base, scale, outcome) ==
    LET r == Robot__init__(self, simulator, urdf, position, orientation,
                           fixed_base, scale, outcome)
    IN  IF "raise" \in DOMAIN r.ret THEN r
        ELSE [self |-> [r.self EXCEPT !.fingers = Some(<<>>)], ret |-> ReturnNone]

\* mutant: the variant does not forward `scale` (Gripper's default is used)
ParallelGripper__init__DropScale(self, simulator, urdf, position, orientation, fixed_base, scale, outcome) ==
    Gripper__init__(self, simulator, urdf, position, orientation, fixed_base, 1, outcome)

\* ParallelGripper.__init__
ParallelGripper__init__(self, simulator, urdf, position, orientation, fixed_base, scale, outcome) ==
    Gripper__init__(self, simulator, urdf, position, orientation, fixed_base, scale, outcome)

\* AngularGripper.__init__
AngularGripper__init__(self, simulator, urdf, position, orientation, fixed_base, scale, outcome) ==
    Gripper__init__(self, simulator, urdf, position, orientation, fixed_base, scale, outcome)

\* VacuumGripper.__init__
VacuumGripper__init__(self, simulator, urdf, position, orientation, fixed_base, scale, outcome) ==
    Gripper__init__(self, simulator, urdf, position, orientation, fixed_base, scale, outcome)

\* C(simulator, urdf, ...): allocate an instance and run the __init__ of class C
New(C, simulator, urdf, position, orientation, fixed_base, scale, outcome) ==
    CASE C = "Gripper" ->
           Gripper__init__(NewObject, simulator, urdf, position, orientation,
                           fixed_base, scale, outcome)
      [] C = "ParallelGripper" ->
           ParallelGripper__init__(NewObject, simulator, urdf, position, orientation,
                                   fixed_base, scale, outcome)
      [] C = "AngularGripper" ->
           AngularGripper__init__(NewObject, simulator, urdf, position, orientation,
                                  fixed_base, scale, outcome)
      [] C = "VacuumGripper" ->
           VacuumGripper__init__(NewObject, simulator, urdf, position, orientation,
                                 fixed_base, scale, outcome)

\* mutant: the count is the number of non-empty finger groups
num_fingersNonEmpty(self) ==
    ReturnCount(Cardinality({k \in 1..Len(self.fingers[1]) : self.fingers[1][k] # <<>>}))

\* Gripper.num_fingers
num_fingers(self) == ReturnCount(PyLen(self.fingers[1]))

\* mutant: the omission test is `finger_id is not None`
get_fingerIsNotNone(self, finger_id) ==
    IF finger_id # None
    THEN LET r == GetItem(self.fingers[1], finger_id[1])
         IN  IF r.ok THEN ReturnFinger(r.val) ELSE Raise(r.val)
    ELSE ReturnFingers(self.fingers[1])

\* mutant: a negative index is rejected
get_fingerNoNegative(self, finger_id) ==
    IF Truthy(finger_id)
    THEN LET r == GetItem(self.fingers[1], finger_id[1])
         IN  IF r.ok /\ finger_id[1] > 0 THEN ReturnFinger(r.val) ELSE Raise("IndexError")
    ELSE ReturnFingers(self.fingers[1])

\* mutant: with the index omitted the first finger group is left out
get_fingerDropFirst(self, finger_id) ==
    IF Truthy(finger_id)
    THEN LET r == GetItem(self.fingers[1], finger_id[1])
         IN  IF r.ok THEN ReturnFinger(r.val) ELSE Raise(r.val)
    ELSE ReturnFingers(IF self.fingers[1] = <<>> THEN <<>> ELSE Tail(self.fingers[1]))

\* Gripper.get_finger
get_finger(self, finger_id) ==
    IF Truthy(finger_id)
    THEN LET r == GetItem(self.fingers[1], finger_id[1])
         IN  IF r.ok THEN ReturnFinger(r.val) ELSE Raise(r.val)
    ELSE ReturnFingers(self.fingers[1])

\* ------------------------------------------------------------------ state
VARIABLES
    pc,        \* "new": nothing constructed; "constructed"; "failed": __init__ raised
    cls,       \* class of `self`
    ctorArgs,  \* the six arguments of the last constructor call
    robotOutcome, \* what the Robot constructor did in the last constructor call
    self,      \* the instance of class cls
    base,      \* the Gripper instance constructed and driven with the same calls
    assigned,  \* TRUE once `fingers` was assigned after construction
    lastOp,    \* the last call: "none", "new", "assign", "num_fingers", "get_finger"
    lastArg,   \* finger_id of the last get_finger call (None otherwise)
    ret,       \* outcome of the last call on `self`
    baseRet    \* outcome of the last call on `base`

vars == <<pc, cls, ctorArgs, robotOutcome, self, base, assigned, lastOp, lastArg, ret, baseRet>>

Init ==
    /\ pc = "new"
    /\ cls = "Gripper"
    /\ ctorArgs = None
    /\ robotOutcome = "ok"
    /\ self = NewObject
    /\ base = NewObject
    /\ assigned = FALSE
    /\ lastOp = "none"
    /\ lastArg = None
    /\ ret = ReturnNone
    /\ baseRet = ReturnNone

\* g = C(simulator, urdf, fixed_base=..., scale=...)
Construct ==
    \E C \in Classes, urdf \in Urdfs, fixed_base \in BOOLEAN, scale \in Scales,
       outcome \in RobotOutcomes :
        LET r == New(C, "sim", urdf, DefaultPosition, DefaultOrientation,
                     fixed_base, scale, outcome)
            b == New("Gripper", "sim", urdf, DefaultPosition, DefaultOrientation,
                     fixed_base, scale, outcome)
        IN  /\ cls' = C
            /\ ctorArgs' = Some(<<"sim", urdf, DefaultPosition, DefaultOrientation,
                                  fixed_base, scale>>)
            /\ robotOutcome' = outcome
            /\ self' = r.self
            /\ base' = b.self
            /\ ret' = r.ret
            /\ baseRet' = b.ret
            /\ pc' = IF "raise" \in DOMAIN r.ret THEN "failed" ELSE "constructed"
            /\ assigned' = FALSE
            /\ lastOp' = "new"
            /\ lastArg' = None

\* g.fingers = value   (the external population step)
AssignFingers ==
    /\ pc = "constructed"
    /\ \E value \in FingerLists :
        /\ self' = [self EXCEPT !.fingers = Some(value)]
        /\ base' = [base EXCEPT !.fingers = Some(value)]
    /\ assigned' = TRUE
    /\ lastOp' = "assign"
    /\ lastArg' = None
    /\ ret' = ReturnNone
    /\ baseRet' = ReturnNone
    /\ UNCHANGED <<pc, cls, ctorArgs, robotOutcome>>

\* g.num_fingers
NumFingers ==
    /\ pc = "constructed"
    /\ ret' = num_fingers(self)
    /\ baseRet' = num_fingers(base)
    /\ lastOp' = "num_fingers"
    /\ lastArg' = None
    /\ UNCHANGED <<pc, cls, ctorArgs, robotOutcome, self, base, assigned>>

\* mutant: the requested finger is removed from `fingers` (pop instead of index)
GetFingerPop ==
    /\ pc = "constructed"
    /\ \E finger_id \in FingerIds :
        /\ ret' = get_finger(self, finger_id)
        /\ baseRet' = get_finger(base, finger_id)
        /\ lastArg' = finger_id
        /\ IF "finger" \in DOMAIN get_finger(self, finger_id)
           THEN LET f == self.fingers[1]
                    n == Len(f)
                    k == IF finger_id[1] < 0 THEN n + finger_id[1] + 1 ELSE finger_id[1] + 1
                    g == SubSeq(f, 1, k - 1) \o SubSeq(f, k + 1, n)
                IN  /\ self' = [self EXCEPT !.fingers = Some(g)]
                    /\ base' = [base EXCEPT !.fingers = Some(g)]
           ELSE UNCHANGED <<self, base>>
    /\ lastOp' = "get_finger"
    /\ UNCHANGED <<pc, cls, ctorArgs, robotOutcome, assigned>>

\* g.get_finger(finger_id)  /  g.get_finger()
GetFinger ==
    /\ pc = "constructed"
    /\ \E finger_id \in FingerIds :
        /\ ret' = get_finger(self, finger_id)
        /\ baseRet' = get_finger(base, finger_id)
        /\ lastArg' = finger_id
    /\ lastOp' = "get_finger"
    /\ UNCHANGED <<pc, cls, ctorArgs, robotOutcome, self, base, assigned>>

Next == Construct \/ AssignFingers \/ NumFingers \/ GetFinger

Spec == Init /\ [][Next]_vars

\* ------------------------------------------------------------- properties
\* The last call was get_finger(i) with an integer i
GotFinger(i) == lastOp = "get_finger" /\ lastArg = Some(i)

\* The current finger collection of `self` (defined once constructed)
Fingers == self.fingers[1]

\* C1: for every valid index 0 <= i < num_fingers, get_finger(i) returns
\* exactly the group assigned at position i.
C1_ValidIndexReturnsGroup ==
    \A i \in 0..MaxFingers :
        (GotFinger(i) /\ i < Len(Fingers)) => ret = ReturnFinger(Fingers[i + 1])

\* C2: for an invalid index (i < -num_fingers or i >= num_fingers), in every
\* state of `fingers` including the empty one, get_finger(i) fails with an
\* out-of-range condition.
C2_InvalidIndexFails ==
    \A i \in -(MaxFingers + 1)..(MaxFingers + 1) :
        (GotFinger(i) /\ (i < -Len(Fingers) \/ i >= Len(Fingers)))
            => ret = Raise("IndexError")

\* C3: whatever was assigned to `fingers`, a num_fingers read returns the
\* length of the currently assigned finger collection, and the instance
\* holds no attribute besides the Robot part and `fingers`.
C3_NumFingersIsLength ==
    /\ DOMAIN self = {"robot", "fingers"}
    /\ lastOp = "num_fingers" => ret = ReturnCount(Len(Fingers))

C3_Witness ==
    /\ lastOp = "num_fingers"
    /\ assigned
    /\ Len(Fingers) = 2
    /\ Fingers[1] = <<>>
    /\ ret = ReturnCount(2)

\* C4: after a construction that returned normally and before any finger
\* assignment, num_fingers is 0 and get_finger() returns an empty collection.
C4_EmptyAfterConstruction ==
    (pc = "constructed" /\ ~assigned) =>
        /\ num_fingers(self) = ReturnCount(0)
        /\ get_finger(self, None) = ReturnFingers(<<>>)
        /\ lastOp = "num_fingers" => ret = ReturnCount(0)
        /\ (lastOp = "get_finger" /\ lastArg = None) => ret = ReturnFingers(<<>>)

C4_Witness ==
    /\ pc = "constructed"
    /\ ~assigned
    /\ lastOp = "get_finger"
    /\ lastArg = None
    /\ ret = ReturnFingers(<<>>)

\* C5: get_finger with the index omitted returns the full collection of
\* finger groups, in order and equal to the current value of `fingers`.
C5_OmittedIndexReturnsAll ==
    (lastOp = "get_finger" /\ lastArg = None) => ret = ReturnFingers(Fingers)

C5_Witness ==
    /\ lastOp = "get_finger"
    /\ lastArg = None
    /\ Len(Fingers) = 2
    /\ Fingers[1] # Fingers[2]
    /\ ret = ReturnFingers(Fingers)

\* C6: a num_fingers or get_finger call (succeeding or failing) leaves
\* `fingers` unchanged, and a call repeated with the same argument right
\* after returns the same result.
C6_ReadsDoNotMutate ==
    [][/\ lastOp' \in {"num_fingers", "get_finger"} => self' = self /\ base' = base
       /\ (lastOp \in {"num_fingers", "get_finger"} /\ lastOp' = lastOp
             /\ lastArg' = lastArg) => ret' = ret]_vars

C6_Witness ==
    /\ GotFinger(1)
    /\ Len(Fingers) = 2
    /\ ret = ReturnFinger(Fingers[2])

\* C7: an instance of a variant class, constructed with the same arguments
\* as a Gripper and driven by the same assignments and reads, gives the same
\* results and failures, holds the same state, and the Robot part received
\* the six constructor arguments unchanged.
C7_VariantsBehaveAsGripper ==
    (cls \in Variants /\ pc # "new") =>
        /\ ret = baseRet
        /\ self = base
        /\ pc = "constructed" => self.robot = ctorArgs

C7_Witness ==
    /\ cls = "ParallelGripper"
    /\ ctorArgs[1][6] = 2
    /\ GotFinger(1)
    /\ Len(Fingers) = 2
    /\ ret = ReturnFinger(Fingers[2])

\* C8: the Robot constructor runs before `fingers` is initialised: when it
\* fails, the caller gets exactly that failure and `fingers` is not set on
\* the instance; when it returns, `fingers` is set after the Robot part.
C8_RobotFailurePropagates ==
    /\ pc = "failed" =>
        /\ robotOutcome # "ok"
        /\ ret = Raise(robotOutcome)
        /\ self.fingers = None
    /\ lastOp = "new" /\ pc = "constructed" =>
        /\ robotOutcome = "ok"
        /\ self.robot # None
        /\ self.fingers = Some(<<>>)

C8_Witness ==
    /\ pc = "failed"
    /\ cls = "AngularGripper"
    /\ ret = Raise("InvalidPose")

C10_NegativeIndexFromEnd ==
    \A i \in -(MaxFingers + 1)..(-1) :
        (GotFinger(i) /\ -Len(Fingers) <= i) => ret = ReturnFinger(Fingers[Len(Fingers) + i + 1])

C10_Witness ==
    /\ GotFinger(-2)
    /\ Len(Fingers) = 2
    /\ Fingers[1] # Fingers[2]
    /\ ret = ReturnFinger(Fingers[1])

====
